---- MODULE Spec2Model ----
(***************************************************************************)
(* A model of wpcn.py: the Webpage tracker (url, webtext), the Notifier    *)
(* (pages, init_time, last_report, the three intervals, the notification   *)
(* method) and its run loop (news, report, sleep).                         *)
(*                                                                         *)
(* The web is the environment: every fetch either fails or returns any    *)
(* text, whatever earlier fetches returned.  Time is a clock of whole      *)
(* ticks read by time.time(); a fetch, a send and a sleep take a           *)
(* nondeterministic latency of 0..MaxLat ticks on top of what the code     *)
(* asks for.  Urls are opaque to the program: page k is given the k-th url *)
(* of UrlList.                                                             *)
(***************************************************************************)
EXTENDS Integers, Sequences, FiniteSets, TLC

\* ------------------------------------------------------------- bounds
MaxPages == 2
MaxLat == 1
MaxPeriod == 2
MaxInterval == 1
MaxSleep == 1
CountCap == 2

\* The clock can not pass MaxTime in a run of the program as written: the
\* loop is entered only before init_time + period, and one iteration costs at
\* most two scans, two sends and one sleep.
MaxTime == (1 + MaxPages) * MaxLat + MaxPeriod
             + (2 * MaxPages + 3) * MaxLat + MaxSleep

UrlList == <<"u1", "u2", "u3", "u4">>
Texts == {"a", "b"}
Fail == "<fetch failed>"
Unset == "<no attribute>"

Periods == 0..MaxPeriod
Intervals == 0..MaxInterval
Sleeps == 0..MaxSleep
Methods == {"terminal", "whatsapp"}
OtherMethods == {"email"}
ClientInfos == {"None", "given"}
Lats == 0..MaxLat

VARIABLES
  pc,                  \* where the program is
  err,                 \* the exception that ended it, or "none"
  period,              \* self.period
  t_status_report,     \* self.t_status_report
  t_sleep,             \* self.t_sleep
  notification_method, \* self.notification_method
  client,              \* self.client: "twilio", or Unset
  pages,               \* self.pages: sequence of [url, webtext]
  init_time,           \* self.init_time
  last_report,         \* self.last_report
  now,                 \* what time.time() returns
  i,                   \* look_up's position in self.pages
  changed_pages,       \* look_up's changed_pages, as indices into pages
  sent,                \* the message the latest step handed to send
  hc,                  \* the latest step's has_changed call
  calls,               \* the has_changed calls of the scan under way
  lastGood,            \* per page: the text of its latest successful fetch
  nStatus,             \* delivered status reports, counted up to CountCap
  lagged               \* whether any step so far took measurable time

vars == <<pc, err, period, t_status_report, t_sleep, notification_method,
          client, pages, init_time, last_report, now, i, changed_pages,
          sent, hc, calls, lastGood, nStatus, lagged>>

settings == <<period, t_status_report, t_sleep, notification_method, client>>

NoMsg == [title |-> "none", time |-> 0, urls |-> <<>>, lines |-> <<>>,
          outcome |-> "none"]
NoCall == [op |-> "none", page |-> 0, fetched |-> Unset, old |-> Unset,
           changed |-> FALSE]

\* ------------------------------------------------------------ Webpage

\* requests.get + BeautifulSoup: the page's text now, or an exception.
FetchResults == Texts \cup {Fail}

\* As get_webtext, but a failed fetch yields the empty text.
get_webtext_empty(self, res) ==
  IF res # Fail THEN res ELSE ""

\* get_webtext: the fetched text, or self.webtext when anything raised.
\* Unset stands for the AttributeError of reading an attribute not yet set.
get_webtext(self, res) ==
  IF res # Fail THEN res ELSE self.webtext

\* Webpage.__init__: self.webtext is assigned from get_webtext, which reads
\* self.webtext when the fetch fails.
Webpage(url, res) ==
  LET self == [url |-> url, webtext |-> Unset]
      w == get_webtext(self, res)
  IN  IF w = Unset
        THEN [raised |-> TRUE, page |-> self]
        ELSE [raised |-> FALSE, page |-> [self EXCEPT !.webtext = w]]

\* As store, but the text is written to the url as well.
store_url(self, webtext) == [self EXCEPT !.webtext = webtext, !.url = webtext]

\* As store, but the snapshot is never replaced.
store_never(self, webtext) == self

store(self, webtext) == [self EXCEPT !.webtext = webtext]

\* As has_changed, but the fetched text is compared and not stored.
has_changed_keep(self, res) ==
  LET webtext == get_webtext(self, res)
      changed == (webtext # self.webtext)
  IN  [page |-> self, changed |-> changed]

has_changed(self, res) ==
  LET webtext == get_webtext(self, res)
      changed == (webtext # self.webtext)
  IN  [page |-> store(self, webtext), changed |-> changed]

\* ----------------------------------------------------------- Notifier

\* As ConstructorRaises, but client_info is not looked at.
ConstructorRaises_never(method, info) == FALSE

\* Notifier.__init__ subscripts client_info only for 'whatsapp'.
ConstructorRaises(method, info) == method = "whatsapp" /\ info = "None"

\* The text of a message, line by line: '--- {0} --- ', then '{1}' (the
\* datetime), then '{0} has changed' for each page.
HeaderLine(title) == [kind |-> "--- {0} --- ", arg |-> title]
TimeLine(t) == [kind |-> "{1}", arg |-> ToString(t)]
PageLine(url) == [kind |-> "{0} has changed", arg |-> url]

\* As gen_message, but an empty list renders as an empty text.
gen_message_bare(ps, cp, title, t) ==
  [title |-> title, time |-> t,
   urls |-> [k \in 1..Len(cp) |-> ps[cp[k]].url],
   lines |-> IF cp = <<>> THEN <<>>
             ELSE <<HeaderLine(title), TimeLine(t)>>
                    \o [k \in 1..Len(cp) |-> PageLine(ps[cp[k]].url)],
   outcome |-> "none"]

\* gen_message(pages, title): urls are the listed pages' urls, lines the text;
\* t is gen_message's own reading of time.time(). outcome is filled by send.
gen_message(ps, cp, title, t) ==
  [title |-> title, time |-> t,
   urls |-> [k \in 1..Len(cp) |-> ps[cp[k]].url],
   lines |-> <<HeaderLine(title), TimeLine(t)>>
               \o [k \in 1..Len(cp) |-> PageLine(ps[cp[k]].url)],
   outcome |-> "none"]

\* As SendOutcomes, but an exception of the sink is caught: the message is
\* lost and send returns.
SendOutcomes_swallow(method) ==
  CASE method = "whatsapp" -> {"delivered", "dropped"}
    [] method = "terminal" -> {"delivered", "dropped"}
    [] OTHER -> {"dropped"}

\* send: client.messages.create and print either deliver or raise (twilio's
\* exceptions, an OSError of a closed stdout), and nothing catches; a method
\* that is neither 'whatsapp' nor 'terminal' falls through both branches.
SendOutcomes(method) ==
  CASE method = "whatsapp" -> {"delivered", "raised"}
    [] method = "terminal" -> {"delivered", "raised"}
    [] OTHER -> {"dropped"}

\* As next_page, but every other page is left out.
next_page_skip(k) == k + 2

\* look_up's for page in self.pages: the position after position k.
next_page(k) == k + 1

\* As collect, but the page is appended whatever has_changed returned.
collect_all(cp, page, changed) == Append(cp, page)

\* As collect, but the page is put in front.
collect_front(cp, page, changed) == IF changed THEN <<page>> \o cp ELSE cp

\* look_up's body: if page.has_changed(): changed_pages.append(page)
collect(cp, page, changed) == IF changed THEN Append(cp, page) ELSE cp

\* As has_news, but with >= for >.
has_news_always(cp) == Len(cp) >= 0

\* news: if len(changed_pages) > 0
has_news(cp) == Len(cp) > 0

\* As report_last, but last_report is set before send is called.
report_last_always(outcome, old, t) == t

\* report: self.last_report = time.time() is reached only when send returned.
report_last(outcome, old, t) == IF outcome = "raised" THEN old ELSE t

\* As sleep_until, but the loop does not sleep.
sleep_forgotten(t, d) == t + d

\* time.sleep(self.t_sleep), d ticks over.
sleep_until(t, d) == t + t_sleep + d

\* As RunCond, but with <= for <.
RunCond_le == now - init_time <= period

RunCond == now - init_time < period

\* As ReportDue, but a report is due at every test.
ReportDue_always == TRUE

\* As ReportDue, but with >= for >.
ReportDue_ge == now - last_report >= t_status_report

ReportDue == now - last_report > t_status_report

Bump(n) == IF n < CountCap THEN n + 1 ELSE n

\* Notifier(settings, client_info), the method being one of ms.
Notifier(ms) ==
  /\ period \in Periods
  /\ t_status_report \in Intervals
  /\ t_sleep \in Sleeps
  /\ notification_method \in ms
  /\ \E info \in ClientInfos :
       /\ client = IF notification_method = "whatsapp" /\ info = "given"
                     THEN "twilio" ELSE Unset
       /\ IF ConstructorRaises(notification_method, info)
            THEN pc = "crashed" /\ err = "TypeError"
            ELSE pc = "idle" /\ err = "none"
  /\ pages = <<>>
  /\ init_time = 0
  /\ now = 0
  /\ last_report = 0
  /\ i = 0
  /\ changed_pages = <<>>
  /\ sent = NoMsg
  /\ hc = NoCall
  /\ calls = <<>>
  /\ lastGood = <<>>
  /\ nStatus = 0
  /\ lagged = FALSE

Init == Notifier(Methods)

\* add_pages, one url of its arguments: self.pages.append(Webpage(url)).
AddPage ==
  /\ pc = "idle"
  /\ Len(pages) < MaxPages
  /\ \E res \in FetchResults, d \in Lats :
       LET w == Webpage(UrlList[Len(pages) + 1], res) IN
       /\ now' = now + d
       /\ lagged' = (lagged \/ d > 0)
       /\ hc' = [op |-> "Webpage", page |-> Len(pages) + 1, fetched |-> res,
                 old |-> Unset, changed |-> FALSE]
       /\ IF w.raised
            THEN /\ pc' = "crashed"
                 /\ err' = "AttributeError"
                 /\ UNCHANGED <<pages, lastGood>>
            ELSE /\ pages' = Append(pages, w.page)
                 /\ lastGood' = Append(lastGood, res)
                 /\ UNCHANGED <<pc, err>>
  /\ UNCHANGED <<settings, init_time, last_report, i, changed_pages,
                 sent, calls, nStatus>>

\* run() is called.
RunStart ==
  /\ pc = "idle"
  /\ pc' = "loop"
  /\ hc' = NoCall
  /\ UNCHANGED <<err, settings, pages, init_time, last_report, now, i,
                 changed_pages, sent, calls, lastGood, nStatus, lagged>>

\* run's while test; when it holds, news() begins its look_up.
LoopTest ==
  /\ pc = "loop"
  /\ IF RunCond
       THEN pc' = "news" /\ i' = 1
       ELSE pc' = "stopped" /\ i' = 0
  /\ sent' = NoMsg
  /\ hc' = NoCall
  /\ UNCHANGED <<err, settings, pages, init_time, last_report, now,
                 changed_pages, calls, lastGood, nStatus, lagged>>

\* look_up, one page of its loop: page.has_changed(), appended when true.
LookUpStep ==
  /\ pc \in {"news", "report"}
  /\ i <= Len(pages)
  /\ \E res \in FetchResults, d \in Lats :
       LET r == has_changed(pages[i], res) IN
       /\ now' = now + d
       /\ lagged' = (lagged \/ d > 0)
       /\ pages' = [pages EXCEPT ![i] = r.page]
       /\ changed_pages' = collect(changed_pages, i, r.changed)
       /\ hc' = [op |-> "has_changed", page |-> i, fetched |-> res,
                 old |-> pages[i].webtext, changed |-> r.changed]
       /\ calls' = Append(calls, [page |-> i, changed |-> r.changed,
                                  still |-> res \in {Fail, lastGood[i]}])
       /\ lastGood' = IF res # Fail THEN [lastGood EXCEPT ![i] = res]
                                    ELSE lastGood
  /\ i' = next_page(i)
  /\ UNCHANGED <<pc, err, settings, init_time, last_report, sent, nStatus>>

\* news, after its look_up returned: a message only for a non-empty list.
NewsSend ==
  /\ pc = "news"
  /\ i > Len(pages)
  /\ hc' = NoCall
  /\ IF has_news(changed_pages)
       THEN \E o \in SendOutcomes(notification_method), d \in Lats :
              /\ sent' = [gen_message(pages, changed_pages, "News", now)
                            EXCEPT !.outcome = o]
              /\ now' = now + d
              /\ lagged' = (lagged \/ d > 0)
              /\ IF o = "raised"
                   THEN pc' = "crashed" /\ err' = "SendError"
                   ELSE pc' = "report_test" /\ err' = err
       ELSE /\ sent' = NoMsg
            /\ pc' = "report_test"
            /\ UNCHANGED <<now, err, lagged>>
  /\ i' = 0
  /\ changed_pages' = <<>>
  /\ calls' = <<>>
  /\ UNCHANGED <<settings, pages, init_time, last_report, lastGood,
                 nStatus>>

\* report's test of the interval; when due, its look_up begins.
ReportTest ==
  /\ pc = "report_test"
  /\ IF ReportDue
       THEN pc' = "report" /\ i' = 1
       ELSE pc' = "sleep" /\ i' = 0
  /\ sent' = NoMsg
  /\ UNCHANGED <<err, settings, pages, init_time, last_report, now, hc,
                 changed_pages, calls, lastGood, nStatus, lagged>>

\* report, after its look_up returned: message, send, then last_report.
ReportSend ==
  /\ pc = "report"
  /\ i > Len(pages)
  /\ hc' = NoCall
  /\ \E o \in SendOutcomes(notification_method), d \in Lats :
       /\ sent' = [gen_message(pages, changed_pages, "Status report", now)
                     EXCEPT !.outcome = o]
       /\ now' = now + d
       /\ lagged' = (lagged \/ d > 0)
       /\ last_report' = report_last(o, last_report, now')
       /\ nStatus' = IF o = "delivered" THEN Bump(nStatus) ELSE nStatus
       /\ IF o = "raised"
            THEN pc' = "crashed" /\ err' = "SendError"
            ELSE pc' = "sleep" /\ err' = err
  /\ i' = 0
  /\ changed_pages' = <<>>
  /\ calls' = <<>>
  /\ UNCHANGED <<settings, pages, init_time, lastGood>>

\* time.sleep(self.t_sleep): at least t_sleep.
Sleep ==
  /\ pc = "sleep"
  /\ \E d \in Lats :
       /\ now' = sleep_until(now, d)
       /\ lagged' = (lagged \/ d > 0)
  /\ pc' = "loop"
  /\ sent' = NoMsg
  /\ UNCHANGED <<err, settings, pages, init_time, last_report, i,
                 changed_pages, calls, hc, lastGood, nStatus>>

Next ==
  \/ AddPage
  \/ RunStart
  \/ LoopTest
  \/ LookUpStep
  \/ NewsSend
  \/ ReportTest
  \/ ReportSend
  \/ Sleep

Spec == Init /\ [][Next]_vars

FairSpec == Spec /\ WF_vars(Next)

\* Scenario C of the specification: report interval 1, poll interval 1, run
\* duration 2, and pages that never change: every successful fetch of a scan
\* returns the text stored for the page.
ScenarioC == period = 2 /\ t_status_report = 1 /\ t_sleep = 1

InitC == Init /\ ScenarioC

StillStep == hc'.op = "has_changed" => hc'.fetched \in {Fail, hc'.old}

NextC ==
  \/ AddPage
  \/ RunStart
  \/ LoopTest
  \/ LookUpStep /\ StillStep
  \/ NewsSend
  \/ ReportTest
  \/ ReportSend
  \/ Sleep

SpecC == InitC /\ [][NextC]_vars

\* report's look_up directly after news's look_up of the same iteration, with
\* a web that did not change in between: a fetch of the second scan fails or
\* returns the text of the page's last successful fetch.
SameAgainStep ==
  pc = "report" => hc'.fetched \in {Fail, lastGood[hc'.page]}

NextTwice ==
  \/ AddPage
  \/ RunStart
  \/ LoopTest
  \/ LookUpStep /\ SameAgainStep
  \/ NewsSend
  \/ ReportTest
  \/ ReportSend
  \/ Sleep

SpecTwice == Init /\ [][NextTwice]_vars

\* A notifier whose 'notification method' is neither documented value: the
\* constructor stores it as it is.
InitOther == Notifier(OtherMethods)

SpecOther == InitOther /\ [][Next]_vars

TypeOK ==
  /\ pc \in {"idle", "loop", "news", "report_test", "report", "sleep",
             "stopped", "crashed"}
  /\ now \in 0..MaxTime
  /\ Len(pages) <= MaxPages
  /\ MaxPages <= Len(UrlList)
  /\ Len(lastGood) = Len(pages)

\* ------------------------------------------------------------- claims

ScanDone == pc \in {"news", "report"} /\ i > Len(pages)

UrlsOf(cp) == [k \in 1..Len(cp) |-> pages[cp[k]].url]

RECURSIVE TruePages(_)
TruePages(cs) ==
  IF cs = <<>> THEN <<>>
  ELSE LET rest == TruePages(SubSeq(cs, 1, Len(cs) - 1))
           c == cs[Len(cs)]
       IN  IF c.changed THEN Append(rest, c.page) ELSE rest

\* C1: a has_changed call returns true exactly when its fetch succeeded and
\* the fetched text differs from the snapshot stored just before the call; a
\* call whose fetch failed returns false.
C1_HasChangedIffFetchedTextDiffers ==
  hc.op = "has_changed" =>
    /\ hc.changed <=> (hc.fetched # Fail /\ hc.fetched # hc.old)
    /\ hc.fetched = Fail => ~hc.changed

C1_Witness ==
  /\ hc.op = "has_changed"
  /\ hc.fetched \notin {Fail, hc.old}
  /\ hc.changed

\* C2: every tracked page's snapshot is the text of its most recent
\* successful fetch (the seeding fetch when every later one failed); a failed
\* fetch leaves the snapshot as it was, so the next successful fetch is
\* compared with the last successfully fetched text.
C2_SnapshotIsLastSuccessfulFetch ==
  /\ Len(lastGood) = Len(pages)
  /\ \A k \in 1..Len(pages) : pages[k].webtext = lastGood[k]
  /\ (hc.op = "has_changed" /\ hc.fetched = Fail) =>
        pages[hc.page].webtext = hc.old
  /\ hc.op = "has_changed" => hc.old \in Texts

C2_Witness ==
  /\ hc.op = "has_changed"
  /\ hc.fetched = Fail
  /\ pages[hc.page].webtext = hc.old

\* C3: constructing a Webpage whose seeding fetch fails yields a tracker with
\* the empty text as its snapshot, and no error reaches the caller.
C3_FailedSeedYieldsEmptyTracker ==
  (hc.op = "Webpage" /\ hc.fetched = Fail) =>
    /\ err = "none"
    /\ Len(pages) = hc.page
    /\ pages[hc.page].webtext = ""

\* C4: look_up calls has_changed once on every registered page, in
\* registration order, and returns exactly the pages whose call returned true,
\* in that order.
C4_LookUpCallsEachPageOnceInOrder ==
  /\ pc \in {"news", "report"} =>
       /\ Len(calls) = i - 1
       /\ i <= Len(pages) + 1
  /\ \A k \in 1..Len(calls) : calls[k].page = k
  /\ ScanDone => Len(calls) = Len(pages)
  /\ changed_pages = TruePages(calls)
  /\ \A k \in 1..Len(changed_pages), m \in 1..Len(changed_pages) :
       k < m => changed_pages[k] < changed_pages[m]

C4_Witness ==
  /\ ScanDone
  /\ Len(pages) = 2
  /\ changed_pages = <<2>>
  /\ calls = <<[page |-> 1, changed |-> FALSE, still |-> TRUE],
               [page |-> 2, changed |-> TRUE, still |-> FALSE]>>

\* C5: the News step hands a message titled "News" to send exactly when its
\* scan returned a non-empty list, and the message lists the urls of that
\* list, in order; no News message is sent for an empty list.
C5_Step ==
  /\ (pc = "news" /\ pc' # "news") =>
       /\ Len(calls) = Len(pages)
       /\ (sent'.title = "News") <=> (changed_pages # <<>>)
       /\ changed_pages = <<>> => sent' = NoMsg
       /\ sent'.title = "News" =>
            /\ sent'.urls = UrlsOf(changed_pages)
            /\ sent'.outcome \in {"delivered", "raised"}
            /\ sent'.outcome = "delivered" <=> pc' = "report_test"
  /\ (sent'.title = "News" /\ sent' # sent) => pc = "news"

C5_NewsIffChangeSetNonEmpty == [][C5_Step]_vars

C5_Witness ==
  /\ pc = "report_test"
  /\ sent.title = "News"
  /\ sent.outcome = "delivered"
  /\ Len(sent.urls) = 2

\* C6: the Report step sends a "Status report" exactly when its test finds
\* now - last_report strictly greater than the interval; a due report is sent
\* whatever its scan found, listing that scan's pages, and last_report is then
\* set to the clock's reading after the send.
C6_Step ==
  /\ (pc = "report_test" /\ pc' # "report_test") =>
       /\ pc' \in {"report", "sleep"}
       /\ pc' = "report" <=> now - last_report > t_status_report
  /\ (pc' = "report" /\ pc # "report") => pc = "report_test"
  /\ (pc = "report" /\ pc' # "report") =>
       /\ Len(calls) = Len(pages)
       /\ sent'.title = "Status report"
       /\ sent'.urls = UrlsOf(changed_pages)
       /\ sent'.outcome = "delivered" => (pc' = "sleep" /\ last_report' = now')
       /\ sent'.outcome # "delivered" => pc' = "crashed"
  /\ (sent'.title = "Status report" /\ sent' # sent) => pc = "report"

C6_StatusReportIffDue == [][C6_Step]_vars

C6_Witness ==
  /\ pc = "sleep"
  /\ sent.title = "Status report"
  /\ sent.outcome = "delivered"
  /\ sent.urls = <<>>
  /\ Len(pages) > 0
  /\ last_report = now

\* C7 (as stated): in scenario C a complete run sends exactly one status
\* report.
C7_ExactlyOneStatusReport ==
  pc = "stopped" => nStatus = 1

\* C7 (amended): in scenario C a run sends at most one status report, and one
\* that is sent lists no changed page; a run whose clock advances only by the
\* sleeps ends at 2 and sends none (the test now - last_report > 1 fails at 0
\* and at 1), as does any run whose clock reads no more than 2 when the loop
\* ends; a report is sent only by a test that reads the clock after 1.
C7_AtMostOneStatusReport ==
  /\ nStatus <= 1
  /\ sent.title = "Status report" => sent.urls = <<>>
  /\ (pc = "stopped" /\ ~lagged) => (now = 2 /\ nStatus = 0)
  /\ (pc = "stopped" /\ now <= 2) => nStatus = 0
  /\ nStatus = 1 => (last_report > 1 /\ lagged)

C7_Witness ==
  /\ pc = "stopped"
  /\ nStatus = 1
  /\ Len(pages) = 2

\* C8: last_report never decreases and changes only in the Report step, when
\* the status report was delivered; when the send raises it keeps its value.
C8_Step ==
  /\ last_report' >= last_report
  /\ last_report' # last_report =>
       /\ pc = "report"
       /\ sent'.title = "Status report"
       /\ sent'.outcome = "delivered"
       /\ last_report' = now'
  /\ (pc = "report" /\ sent'.outcome = "raised") => last_report' = last_report

C8_LastReportOnlyAfterSend == [][C8_Step]_vars

C8_Witness ==
  /\ err = "SendError"
  /\ sent.title = "Status report"
  /\ sent.outcome = "raised"
  /\ now - last_report > t_status_report
  /\ Len(pages) > 0

\* C9: a loop iteration starts only when now - init_time < period, init_time
\* being the clock's reading at construction (0); when the test fails the
\* notifier is stopped: no scan, no message and no step follow.
C9_Step ==
  /\ init_time = 0 /\ init_time' = init_time
  /\ (pc = "loop" /\ pc' # "loop") =>
       /\ pc' \in {"news", "stopped"}
       /\ pc' = "news" <=> now - init_time < period
  /\ (pc' = "news" /\ pc # "news") => pc = "loop"
  /\ (pc' = "stopped" /\ pc # "stopped") => pc = "loop"
  /\ pc = "stopped" =>
       /\ pc' = "stopped"
       /\ pages' = pages /\ sent' = sent /\ hc' = hc /\ calls' = calls

C9_IterationOnlyWithinPeriod == [][C9_Step]_vars

C9_Witness ==
  /\ pc = "stopped"
  /\ now - init_time = period
  /\ period > 0
  /\ Len(pages) > 0

\* C10: provided nothing raises and time advances (t_sleep > 0, or the clock
\* moving again and again through step latency), run terminates: the loop
\* reaches stopped.
C10_RunTerminates ==
  ([](err = "none") /\ ((t_sleep > 0) \/ []<><<now' > now>>_vars))
    => <>(pc = "stopped")

C10_Witness ==
  /\ pc = "stopped"
  /\ err = "none"
  /\ t_sleep > 0
  /\ nStatus > 0
  /\ period > t_sleep
  /\ Len(pages) > 0

\* C11: a send that fails is not swallowed, whichever sink is configured: the
\* exception leaves send and the news or report step that called it, so the
\* step does not complete (report does not set last_report, the loop does
\* not go on); an error seen after a send is the one that send raised.
C11_Step ==
  /\ (sent'.outcome = "raised" /\ sent' # sent) =>
       /\ pc \in {"news", "report"}
       /\ pc' = "crashed"
       /\ err' = "SendError"
       /\ last_report' = last_report
       /\ nStatus' = nStatus
  /\ (err' = "SendError" /\ err # "SendError") => sent'.outcome = "raised"
  /\ (pc \in {"news", "report"} /\ pc' \in {"report_test", "sleep"}) =>
       sent'.outcome \in {"none", "delivered"}
  /\ pc = "crashed" => pc' = "crashed"

C11_SendFailureSurfaces == [][C11_Step]_vars

C11_Witness ==
  /\ pc = "crashed"
  /\ err = "SendError"
  /\ notification_method = "terminal"
  /\ sent.title = "News"
  /\ sent.outcome = "raised"
  /\ Len(sent.urls) > 0

AllStill(cs) == \A k \in 1..Len(cs) : cs[k].still

\* C12: a scan in which every fetch fails or returns the text of the page's
\* last successful fetch returns an empty list, so that two scans in succession over
\* pages that keep their seeded text are both empty; and whatever the first
\* of two successive scans found, the second (report's, directly after
\* news's) is empty when the fetched texts are the same again, and the status
\* report then lists no page.
C12_SecondScanIsEmpty ==
  /\ \A k \in 1..Len(calls) : calls[k].still => ~calls[k].changed
  /\ AllStill(calls) => changed_pages = <<>>
  /\ pc = "report" => (AllStill(calls) /\ changed_pages = <<>>)
  /\ (hc.op = "has_changed" /\ ~hc.changed) => pages[hc.page].webtext = hc.old
  /\ sent.title = "Status report" => sent.urls = <<>>

C12_Witness ==
  /\ pc = "report"
  /\ ScanDone
  /\ Len(pages) = 2
  /\ Len(calls) = 2
  /\ hc.fetched = lastGood[hc.page]
  /\ changed_pages = <<>>

\* C13: a notifier configured for whatsapp without client_info does not
\* exist: its constructor raised (a TypeError, None being subscripted) before
\* self.pages was created, so no page is registered, run never starts, and no
\* fetch, scan or send happens.
C13_MisconfiguredFailsAtConstruction ==
  (notification_method = "whatsapp" /\ client = Unset) =>
    /\ pc = "crashed"
    /\ err = "TypeError"
    /\ pages = <<>>
    /\ hc = NoCall
    /\ calls = <<>>
    /\ sent = NoMsg
    /\ now = init_time

C13_Witness ==
  /\ notification_method = "whatsapp"
  /\ client = Unset
  /\ pc = "crashed"
  /\ err = "TypeError"

\* C14: the text of a message is the title's header line, the line of the
\* time at which it was generated, and one "<url> has changed" line for each
\* page of the scan's list, in the list's order; for an empty list it is the
\* header and the time line alone.
C14_Step ==
  (sent' # sent /\ sent'.title # "none") =>
    LET cp == changed_pages
        ls == sent'.lines
    IN  /\ sent'.title \in {"News", "Status report"}
        /\ Len(ls) = 2 + Len(cp)
        /\ ls[1] = HeaderLine(sent'.title)
        /\ ls[2] = TimeLine(now)
        /\ \A k \in 1..Len(cp) : ls[2 + k] = PageLine(pages[cp[k]].url)
        /\ cp = <<>> => ls = <<HeaderLine("Status report"), TimeLine(now)>>

C14_MessageLayout == [][C14_Step]_vars

C14_Witness ==
  /\ sent.title = "News"
  /\ sent.lines = <<HeaderLine("News"), TimeLine(sent.time),
                    PageLine(UrlList[1]), PageLine(UrlList[2])>>

Fetched == hc' # hc /\ hc'.op = "has_changed"

\* C15: an iteration runs news's scan, then (if any) the News message, then
\* report's test, then, when a report is due, report's scan and the status
\* report, then the sleep. Pages are fetched only inside the two scans, and a
\* scan fetches every registered page once, in order: once per page in an
\* iteration without a due report, twice per page in one with.
C15_Step ==
  /\ pc = "loop" => pc' \in {"loop", "news", "stopped"}
  /\ pc = "news" => pc' \in {"news", "report_test", "crashed"}
  /\ pc = "report_test" => pc' \in {"report_test", "report", "sleep"}
  /\ pc = "report" => pc' \in {"report", "sleep", "crashed"}
  /\ pc = "sleep" => pc' \in {"sleep", "loop"}
  /\ (pc = "report_test" /\ pc' = "report") <=> (pc = "report_test" /\ ReportDue)
  /\ Fetched =>
       /\ pc \in {"news", "report"} /\ pc' = pc
       /\ hc'.page = Len(calls) + 1
       /\ calls' = Append(calls, calls'[Len(calls')])
       /\ Len(calls') <= Len(pages)
  /\ (pc \in {"news", "report"} /\ ~Fetched) =>
       /\ pc' # pc
       /\ Len(calls) = Len(pages)
       /\ \A k \in 1..Len(calls) : calls[k].page = k
  /\ (pc' \in {"news", "report"} /\ pc' # pc) => calls' = <<>>
  /\ (sent' # sent /\ sent'.title = "News") => pc = "news"
  /\ (sent' # sent /\ sent'.title = "Status report") => pc = "report"
  /\ now' > now =>
       \/ pc \in {"idle", "news", "report"}
       \/ pc = "sleep" /\ now' >= now + t_sleep

C15_NewsThenReportThenSleep == [][C15_Step]_vars

C15_Witness ==
  /\ pc = "report"
  /\ ScanDone
  /\ Len(pages) = 2
  /\ calls = <<[page |-> 1, changed |-> TRUE, still |-> FALSE],
               [page |-> 2, changed |-> FALSE, still |-> TRUE]>>

\* C16: a page's snapshot changes only in that page's own has_changed call,
\* which leaves every other page as it was; no url ever changes; once run
\* has started the list of pages is fixed; init_time and the three
\* configured times never change.
C16_Step ==
  /\ \A k \in 1..Len(pages) :
       /\ k <= Len(pages')
       /\ pages'[k].url = pages[k].url
       /\ pages'[k].webtext # pages[k].webtext =>
            /\ pc \in {"news", "report"}
            /\ hc' = [op |-> "has_changed", page |-> k,
                      fetched |-> pages'[k].webtext,
                      old |-> pages[k].webtext, changed |-> TRUE]
  /\ (hc'.op = "has_changed" /\ hc' # hc) =>
       \A k \in 1..Len(pages) : k # hc'.page => pages'[k] = pages[k]
  /\ pc # "idle" => Len(pages') = Len(pages)
  /\ init_time' = init_time
  /\ period' = period
  /\ t_status_report' = t_status_report
  /\ t_sleep' = t_sleep

C16_OnlyOwnSnapshotChanges == [][C16_Step]_vars

C16_Witness ==
  /\ pc = "report"
  /\ Len(pages) = 2
  /\ hc.op = "has_changed"
  /\ hc.page = 2
  /\ hc.changed
  /\ pages[2].webtext = hc.fetched
  /\ pages[1].webtext # pages[2].webtext

Listings(urls, u) == Cardinality({m \in 1..Len(urls) : urls[m] = u})

\* C17: when a scan's step completes (its send, if any, succeeded), every
\* has_changed call of that scan that returned true has its page's url
\* exactly once in the message just sent, every other page's url is not in
\* it, and the list is dropped: no later message repeats it. A page is listed
\* by report's scan only when its fetch returned a text other than the one of
\* the page's last successful fetch, which news's scan of the same iteration
\* stored when it saw the change; a status report is built from report's own
\* scan alone and summarises nothing earlier.
C17_Step ==
  /\ (pc \in {"news", "report"} /\ pc' \in {"report_test", "sleep"}) =>
       /\ \A k \in 1..Len(calls) :
            Listings(sent'.urls, pages[calls[k].page].url)
              = IF calls[k].changed THEN 1 ELSE 0
       /\ Len(sent'.urls) = Len(TruePages(calls))
       /\ sent'.urls # <<>> => sent'.outcome = "delivered"
       /\ calls' = <<>>
       /\ changed_pages' = <<>>
  /\ Fetched =>
       /\ hc'.changed <=> hc'.fetched \notin {Fail, lastGood[hc'.page]}
       /\ hc'.changed => lastGood'[hc'.page] = hc'.fetched
       /\ hc'.changed => pages'[hc'.page].webtext = hc'.fetched
  /\ (pc' = "report" /\ pc # "report") => (changed_pages' = <<>> /\ calls' = <<>>)

C17_EachChangeInOneMessage == [][C17_Step]_vars

C17_Witness ==
  /\ pc = "sleep"
  /\ sent.title = "Status report"
  /\ sent.outcome = "delivered"
  /\ Len(pages) = 2
  /\ sent.urls = <<UrlList[2]>>

StatusSent == sent' # sent /\ sent'.title = "Status report"

\* C18: last_report is the time of construction until the first status
\* report and afterwards the time at which the latest one had been sent; a
\* status report is generated and sent only after a test that found the
\* clock more than the interval past last_report. So the first is sent more
\* than the interval after construction and each further one more than the
\* interval after the one before. report is entered once per iteration, so an
\* iteration sends at most one.
C18_Step ==
  /\ nStatus = 0 => last_report = init_time
  /\ (sent.title = "Status report" /\ sent.outcome = "delivered") =>
       (nStatus > 0 /\ sent.time <= last_report)
  /\ StatusSent =>
       /\ pc = "report"
       /\ pc' \in {"sleep", "crashed"}
       /\ sent'.time = now
       /\ sent'.time - last_report > t_status_report
       /\ sent'.time - init_time > t_status_report
       /\ sent'.outcome = "delivered" =>
            (last_report' = now' /\ now' >= sent'.time /\ nStatus' > 0)
  /\ last_report' # last_report => (StatusSent /\ sent'.outcome = "delivered")
  /\ (pc' = "report" /\ pc # "report") => (pc = "report_test" /\ ReportDue)
  /\ (pc' = "report_test" /\ pc # "report_test") => pc = "news"
  /\ (pc' = "news" /\ pc # "news") => pc = "loop"
  /\ (pc' = "loop" /\ pc # "loop") => pc \in {"idle", "sleep"}

C18_StatusReportsSpacedByInterval == [][C18_Step]_vars

C18_Witness ==
  /\ pc = "sleep"
  /\ nStatus = 2
  /\ sent.title = "Status report"
  /\ sent.outcome = "delivered"
  /\ sent.time > t_status_report
  /\ Len(pages) > 0

\* C19: whatever notification method the constructor accepted, a message
\* handed to send is delivered or send raises; none is dropped in silence.
C19_NoMessageSilentlyDropped ==
  sent.title # "none" => sent.outcome \in {"delivered", "raised"}
====
